---- MODULE Spec2Model ----
(***************************************************************************)
(* Memory API (Layer 1), src/memory-api/main.py: the chat_memory table and *)
(* the handlers that change it.  Every `await conn.<statement>` is one     *)
(* atomic step (per-statement atomicity, no transaction is opened), and    *)
(* handlers of concurrent requests interleave between statements.          *)
(*                                                                         *)
(* Strings are sequences of one-character strings, so that json.dumps,     *)
(* the f"%{key}%" pattern and ILIKE are computed as the code computes      *)
(* them.                                                                   *)
(***************************************************************************)
EXTENDS Integers, Sequences, FiniteSets, Bags, TLC

VARIABLES
    store,      \* the rows of chat_memory
    nextId,     \* source of fresh ids (uuid.uuid4())
    req,        \* per request slot: the handler's locals and position
    removed,    \* history: bag of the row ids DELETE ... RETURNING gave back
    now,        \* the clock of the database server (NOW())
    rag,        \* src/services/rag/service.py: RAGService's class attributes
                \* and the callers of get_instance
    img         \* src/image-api/main.py: the global `pipe` and the requests

vars == <<store, nextId, req, removed, now, rag, img>>

(***************************************************************************)
(* Bounds of the model.                                                    *)
(***************************************************************************)
MaxRequests == 2    \* request slots (concurrent handlers)
MaxOps == 2         \* elements in one language-model response
MaxRuns == 3        \* times a caller sends one request (the first included)
MaxTime == 2        \* ticks of the database clock
MaxText == 5        \* pieces of text in one language-model response
MaxCallers == 4     \* concurrent callers of get_instance, resp. of /generate

Requests == 1 .. MaxRequests

Users == {"u1", "u2"}
MemTypes == {"long_term", "entity"}

None == 0           \* fetchrow found no row

(***************************************************************************)
(* Text.                                                                   *)
(***************************************************************************)
Quote == "\""
Backslash == "\\"

\* str.lower() / the case folding ILIKE applies, on the model's alphabet
LowerChar(c) ==
    IF c = "A" THEN "a" ELSE IF c = "B" THEN "b" ELSE IF c = "C" THEN "c" ELSE c

Lower(s) == [j \in 1 .. Len(s) |-> LowerChar(s[j])]

\* the characters outside ASCII that the model uses, each named by its code
\* point, with the four hexadecimal digits json.dumps writes for it
CodePoint ==
    [c \in { "U+8349", "U+8393", "U+86CB", "U+7CD5", "U+5343", "U+5C64",
             "U+62AB", "U+85A9", "U+725B", "U+6392",
             "U+4EC0", "U+9EBC", "U+8AB0", "U+54EA" } |->
        CASE c = "U+8349" -> <<"8", "3", "4", "9">>
          [] c = "U+8393" -> <<"8", "3", "9", "3">>
          [] c = "U+86CB" -> <<"8", "6", "c", "b">>
          [] c = "U+7CD5" -> <<"7", "c", "d", "5">>
          [] c = "U+5343" -> <<"5", "3", "4", "3">>
          [] c = "U+5C64" -> <<"5", "c", "6", "4">>
          [] c = "U+62AB" -> <<"6", "2", "a", "b">>
          [] c = "U+85A9" -> <<"8", "5", "a", "9">>
          [] c = "U+725B" -> <<"7", "2", "5", "b">>
          [] c = "U+6392" -> <<"6", "3", "9", "2">>
          [] c = "U+4EC0" -> <<"4", "e", "c", "0">>
          [] c = "U+9EBC" -> <<"9", "e", "b", "c">>
          [] c = "U+8AB0" -> <<"8", "a", "b", "0">>
          [] c = "U+54EA" -> <<"5", "4", "e", "a">>]

NonAscii == DOMAIN CodePoint

\* json.dumps of one character of a str, with the default ensure_ascii:
\* the quote and the backslash get a backslash, a character outside ASCII
\* becomes \uXXXX
JsonEscapeChar(c) ==
    IF c = Quote THEN <<Backslash, Quote>>
    ELSE IF c = Backslash THEN <<Backslash, Backslash>>
    ELSE IF c \in NonAscii THEN <<Backslash, "u">> \o CodePoint[c]
    ELSE <<c>>

RECURSIVE JsonEscape(_)
JsonEscape(s) ==
    IF s = <<>> THEN <<>> ELSE JsonEscapeChar(Head(s)) \o JsonEscape(Tail(s))

\* value_json = json.dumps(op["value"]) for a str value
JsonDumps(v) == <<Quote>> \o JsonEscape(v) \o <<Quote>>

\* value::text of the value column for the JSON text t that was written:
\* the column keeps the JSON value, not the text that was sent, and gives
\* the canonical text back, in which \uXXXX is the character itself while
\* the quote and the backslash keep their backslash
RECURSIVE ValueText(_)
ValueText(t) ==
    IF t = <<>> THEN <<>>
    ELSE IF Head(t) = Backslash /\ Len(t) >= 6 /\ t[2] = "u"
        THEN <<CHOOSE c \in NonAscii : CodePoint[c] = SubSeq(t, 3, 6)>>
                \o ValueText(SubSeq(t, 7, Len(t)))
    ELSE IF Head(t) = Backslash /\ Len(t) >= 2
        THEN <<t[1], t[2]>> \o ValueText(SubSeq(t, 3, Len(t)))
    ELSE <<Head(t)>> \o ValueText(Tail(t))

\* PostgreSQL LIKE: % any run of characters, _ any one character,
\* backslash takes the next pattern character literally
RECURSIVE Like(_, _)
Like(s, p) ==
    IF p = <<>> THEN s = <<>>
    ELSE IF Head(p) = "%"
        THEN Like(s, Tail(p)) \/ (s # <<>> /\ Like(Tail(s), p))
    ELSE IF Head(p) = "_"
        THEN s # <<>> /\ Like(Tail(s), Tail(p))
    ELSE IF Head(p) = Backslash /\ Len(p) >= 2
        THEN s # <<>> /\ Head(s) = p[2] /\ Like(Tail(s), Tail(Tail(p)))
    ELSE s # <<>> /\ Head(s) = Head(p) /\ Like(Tail(s), Tail(p))

\* s ILIKE p
ILike(s, p) == Like(Lower(s), Lower(p))

\* f"%{key}%"
FuzzyPattern(term) == <<"%">> \o term \o <<"%">>

\* term occurs in s, compared without case: what "contains the search term
\* as a case-insensitive substring" means
Contains(s, term) ==
    \E j \in 0 .. Len(s) :
        /\ j + Len(term) <= Len(s)
        /\ Lower(SubSeq(s, j + 1, j + Len(term))) = Lower(term)

\* a JSON number where a string is expected (7, as the key of an element)
\* is the one token "#7"
NumberSeven == <<"#7">>

\* isinstance(v, str), which asyncpg requires of the argument of a text
\* parameter (it raises DataError otherwise)
IsStr(v) == \A j \in DOMAIN v : v[j] # "#7"

\* str(v), as an f-string applies it
Str(v) == [j \in DOMAIN v |-> IF v[j] = "#7" THEN "7" ELSE v[j]]

(***************************************************************************)
(* The strings the model draws its inputs from.                            *)
(***************************************************************************)
KeyAB == <<"a", "b">>
KeyC == <<"c">>
ValA == <<"A">>
ValC == <<"c">>

\* One element of the JSON array the language model returned.  A missing
\* field is a flag, not a value: `"key" not in op`, op.get("action", ...),
\* `"value" in op`.
Element(isDict, hasKey, key, hasAction, action, hasValue, value) ==
    [isDict |-> isDict, hasKey |-> hasKey, key |-> key,
     hasAction |-> hasAction, action |-> action,
     hasValue |-> hasValue, value |-> value]

UpdateElem(key, value) == Element(TRUE, TRUE, key, TRUE, "update", TRUE, value)
DeleteElem(term) == Element(TRUE, TRUE, term, TRUE, "delete", FALSE, <<>>)

Elements ==
    { UpdateElem(KeyAB, ValA),
      Element(TRUE, TRUE, KeyAB, FALSE, "", TRUE, ValC),        \* no "action"
      Element(TRUE, TRUE, KeyAB, TRUE, "update", FALSE, <<>>),  \* no "value"
      Element(TRUE, TRUE, KeyAB, TRUE, "merge", TRUE, ValA),    \* unknown action
      DeleteElem(<<"a">>),
      DeleteElem(<<"_">>),
      DeleteElem(<<>>) }

\* the parsed arrays: every sequence of at most MaxOps elements
Responses == UNION { [1 .. n -> Elements] : n \in 0 .. MaxOps }

\* values at the length limit of the validator (99 and 100 characters),
\* the placeholder tokens, and a value that only contains one
Val99 == [j \in 1 .. 99 |-> "x"]
Val100 == [j \in 1 .. 100 |-> "x"]
ValWhat == <<"U+4EC0", "U+9EBC">>
ValWho == <<"U+8AB0">>
ValWhich == <<"U+54EA">>
ValWhoAsked == <<"U+8AB0", "?">>

\* the elements the validator is examined on
ValidatorElements ==
    { UpdateElem(KeyAB, Val99),
      UpdateElem(KeyAB, Val100),
      UpdateElem(KeyAB, ValWhat),
      UpdateElem(KeyAB, ValWho),
      UpdateElem(KeyAB, ValWhich),
      UpdateElem(KeyAB, ValWhoAsked),
      UpdateElem(KeyAB, <<>>),                                 \* "value": ""
      Element(TRUE, TRUE, KeyAB, TRUE, "update", FALSE, <<>>), \* no "value"
      Element(TRUE, TRUE, KeyAB, FALSE, "", TRUE, Val100),     \* no "action"
      Element(TRUE, TRUE, KeyC, FALSE, "", TRUE, ValA),        \* no "action"
      Element(TRUE, TRUE, KeyAB, TRUE, "merge", TRUE, ValA),   \* unknown action
      Element(TRUE, FALSE, <<>>, TRUE, "update", TRUE, ValA),  \* no "key"
      Element(FALSE, FALSE, <<>>, FALSE, "", FALSE, <<>>),     \* not an object
      UpdateElem(NumberSeven, ValA),                           \* "key": 7
      DeleteElem(<<"a">>) }

ValidatorResponses == UNION { [1 .. n -> ValidatorElements] : n \in 0 .. MaxOps }

\* the strings of the examples in MEMORY_EXTRACTION_PROMPT
FavoriteFood == <<"f", "a", "v", "o", "r", "i", "t", "e", "_", "f", "o", "o", "d">>
StrawberryCake ==
    <<"s", "t", "r", "a", "w", "b", "e", "r", "r", "y", " ", "c", "a", "k", "e">>
Pizza == <<"p", "i", "z", "z", "a">>
StrawberryCakeZh == <<"U+8349", "U+8393", "U+86CB", "U+7CD5">>
MilleCrepeZh == <<"U+5343", "U+5C64", "U+86CB", "U+7CD5">>
PizzaZh == <<"U+62AB", "U+85A9">>
SteakZh == <<"U+725B", "U+6392">>

\* the responses of the two examples that delete and then update
CakeResponse ==
    << DeleteElem(StrawberryCakeZh), DeleteElem(StrawberryCake),
       UpdateElem(FavoriteFood, MilleCrepeZh) >>
PizzaResponse ==
    << DeleteElem(PizzaZh), DeleteElem(Pizza), UpdateElem(FavoriteFood, SteakZh) >>

\* the elements of s that keep marks, in order
RECURSIVE Pick(_, _)
Pick(s, keep) ==
    IF s = <<>> THEN <<>>
    ELSE (IF Head(keep) THEN <<Head(s)>> ELSE <<>>) \o Pick(Tail(s), Tail(keep))

\* the two example responses, and what the language model gives when it
\* leaves some of their elements out
ExampleResponses ==
    { Pick(s, keep) : s \in {CakeResponse},
                      keep \in [1 .. Len(CakeResponse) -> BOOLEAN] }
    \cup { Pick(s, keep) : s \in {PizzaResponse},
                           keep \in [1 .. Len(PizzaResponse) -> BOOLEAN] }

(***************************************************************************)
(* extract_memories_with_llm: the validation loop.                         *)
(***************************************************************************)
MaxValueLen == 100

\* ['什麼', '誰', '哪'], one token per character
Denylist == { <<"U+4EC0", "U+9EBC">>, <<"U+8AB0">>, <<"U+54EA">> }

DeleteOp(key) == [action |-> "delete", key |-> key, value |-> <<>>]
UpdateOp(key, value) == [action |-> "update", key |-> key, value |-> value]

\* (mutant) the length test lets a value of 100 characters through
ValueAcceptedAtLimit(value) ==
    value # <<>> /\ Len(value) <= MaxValueLen /\ value \notin Denylist

\* `value and len(str(value)) < 100 and value not in [...]`
ValueAccepted(value) ==
    value # <<>> /\ Len(value) < MaxValueLen /\ value \notin Denylist

\* (mutant) every action other than "delete" is taken as an update
ValidateElementAnyAction(e) ==
    IF ~e.isDict \/ ~e.hasKey THEN <<>>
    ELSE LET action == IF e.hasAction THEN e.action ELSE "update" IN
         IF action = "delete" THEN <<DeleteOp(e.key)>>
         ELSE IF e.hasValue /\ ValueAccepted(e.value)
             THEN <<UpdateOp(e.key, e.value)>> ELSE <<>>

\* what one element appends to valid_ops
ValidateElement(e) ==
    IF ~e.isDict \/ ~e.hasKey THEN <<>>
    ELSE LET action == IF e.hasAction THEN e.action ELSE "update" IN
         IF action = "delete" THEN <<DeleteOp(e.key)>>
         ELSE IF action = "update" /\ e.hasValue
             THEN IF ValueAccepted(e.value)
                  THEN <<UpdateOp(e.key, e.value)>> ELSE <<>>
         ELSE <<>>

\* (mutant) valid_ops is built from the last element to the first
RECURSIVE ValidOpsReversed(_)
ValidOpsReversed(operations) ==
    IF operations = <<>> THEN <<>>
    ELSE ValidOpsReversed(Tail(operations)) \o ValidateElement(Head(operations))

RECURSIVE ValidOps(_)
ValidOps(operations) ==
    IF operations = <<>> THEN <<>>
    ELSE ValidateElement(Head(operations)) \o ValidOps(Tail(operations))

(***************************************************************************)
(* extract_memories_with_llm: from the text of the response to the parsed  *)
(* array.  A response text is a sequence of pieces:                        *)
(*   "p"  text with no bracket in it and without </think>                  *)
(*   "T"  the delimiter </think>                                           *)
(*   "["  "]"  ","  the characters                                         *)
(*   "e"  a JSON object, {"action": "delete", "key": "a"}                  *)
(*   "t"  a JSON object with the delimiter inside a string of it,          *)
(*        {"action": "delete", "key": "</think>"}                          *)
(*   "f"  what is left of "t" behind its delimiter, "}                     *)
(***************************************************************************)
Pieces == {"p", "T", "[", "]", ",", "e", "t"}

\* the response texts
Texts == UNION { [1 .. n -> Pieces] : n \in 0 .. MaxText }

\* the key of the object "t"
ThinkKey == <<"<", "/", "t", "h", "i", "n", "k", ">">>

\* the places of the delimiter in a text
ThinkAt(content) == { j \in DOMAIN content : content[j] \in {"T", "t"} }

\* `if "</think>" in content: content = content.split("</think>")[-1]`
AfterThink(content) ==
    IF ThinkAt(content) = {} THEN content
    ELSE LET last == CHOOSE j \in ThinkAt(content) :
                        \A k \in ThinkAt(content) : k <= j
         IN (IF content[last] = "t" THEN <<"f">> ELSE <<>>)
                \o SubSeq(content, last + 1, Len(content))

\* content.find('['): the index before the first "[", or -1
Find(content) ==
    IF \E j \in DOMAIN content : content[j] = "["
    THEN (CHOOSE j \in DOMAIN content :
            content[j] = "[" /\ \A k \in 1 .. j - 1 : content[k] # "[") - 1
    ELSE -1

\* content.rfind(']') + 1: the index of the last "]", or 0
RFindEnd(content) ==
    IF \E j \in DOMAIN content : content[j] = "]"
    THEN CHOOSE j \in DOMAIN content :
            content[j] = "]" /\ \A k \in j + 1 .. Len(content) : content[k] # "]"
    ELSE 0

\* content[start:end]
Slice(content, start, end) == SubSeq(content, start + 1, end)

\* json.loads, the grammar: a value is an object or an array; an array is
\* "[" "]" or "[" value ("," value)* "]".  JsonValue and JsonItems give
\* the place behind the value, resp. behind the array whose items begin
\* at i, and 0 where json.loads raises JSONDecodeError.
RECURSIVE JsonValue(_, _), JsonItems(_, _)
JsonValue(ts, i) ==
    IF i > Len(ts) THEN 0
    ELSE IF ts[i] \in {"e", "t"} THEN i + 1
    ELSE IF ts[i] = "["
        THEN IF i + 1 <= Len(ts) /\ ts[i + 1] = "]" THEN i + 2
             ELSE JsonItems(ts, i + 1)
    ELSE 0

JsonItems(ts, i) ==
    LET n == JsonValue(ts, i)
    IN IF n = 0 \/ n > Len(ts) THEN 0
       ELSE IF ts[n] = "," THEN JsonItems(ts, n + 1)
       ELSE IF ts[n] = "]" THEN n + 1
       ELSE 0

\* json.loads(ts) returns (the text is one JSON value and nothing else)
JsonLoadsReturns(ts) == JsonValue(ts, 1) = Len(ts) + 1

\* the element of the parsed array that begins at i
ElementAt(ts, i) ==
    IF ts[i] = "e" THEN DeleteElem(<<"a">>)
    ELSE IF ts[i] = "t" THEN DeleteElem(ThinkKey)
    ELSE Element(FALSE, FALSE, <<>>, FALSE, "", FALSE, <<>>)   \* a list

\* the elements of the array whose items begin at i
RECURSIVE JsonElements(_, _)
JsonElements(ts, i) ==
    IF ts[i] = "]" THEN <<>>
    ELSE LET n == JsonValue(ts, i)
         IN <<ElementAt(ts, i)>>
                \o (IF ts[n] = "," THEN JsonElements(ts, n + 1) ELSE <<>>)

\* json.loads(ts) for a text that begins with "["
JsonLoads(ts) == JsonElements(ts, 2)

\* lines 186 to 199 and the `except Exception`: the array that is handed
\* to the validation loop (raised: json.loads has raised; found: there is
\* a "[" with a "]" behind it)
Parsed(content) ==
    LET text == AfterThink(content)
        start == Find(text)
        end == RFindEnd(text)
        found == start >= 0 /\ end > start
        json_str == Slice(text, start, end)
    IN [raised |-> found /\ ~JsonLoadsReturns(json_str),
        operations |-> IF found /\ JsonLoadsReturns(json_str)
                       THEN JsonLoads(json_str) ELSE <<>>]

(***************************************************************************)
(* The statements on chat_memory.                                          *)
(***************************************************************************)
\* a row of the table the service starts with
Row(id, userId, key, memoryType, value) ==
    [id |-> id, userId |-> userId, key |-> key,
     memoryType |-> memoryType, value |-> value,
     createdAt |-> 0, updatedAt |-> 0]

\* (mutant) only the key column is matched
FuzzyMatchKeyOnly(row, userId, term) ==
    row.userId = userId /\ ILike(row.key, FuzzyPattern(term))

\* (mutant) the statement has no "userId" = $1
FuzzyMatchAnyUser(row, userId, term) ==
    \/ ILike(row.key, FuzzyPattern(term))
    \/ ILike(ValueText(row.value), FuzzyPattern(term))

\* WHERE "userId" = $1 AND (key ILIKE $2 OR value::text ILIKE $2),
\* with $2 = f"%{key}%"
FuzzyMatch(row, userId, term) ==
    /\ row.userId = userId
    /\ \/ ILike(row.key, FuzzyPattern(term))
       \/ ILike(ValueText(row.value), FuzzyPattern(term))

\* (mutant) the statement stops at the first matching row: DELETE ... LIMIT 1
DeleteMatchingFirstOnly(st, userId, term) ==
    LET rows == { row \in st : FuzzyMatch(row, userId, term) }
    IN { row \in rows : \A other \in rows : row.id <= other.id }

\* the rows DELETE FROM chat_memory WHERE ... RETURNING id, key removes
DeleteMatching(st, userId, term) ==
    { row \in st : FuzzyMatch(row, userId, term) }

\* the rows DELETE FROM chat_memory WHERE "userId" = $1 AND id = $2 removes
DeleteById(st, userId, id) ==
    { row \in st : row.userId = userId /\ row.id = id }

\* the rows DELETE FROM chat_memory WHERE "userId" = $1 AND key = $2 removes
DeleteByKey(st, userId, key) ==
    { row \in st : row.userId = userId /\ row.key = key }

\* SELECT id FROM chat_memory
\* WHERE "userId" = $1 AND key = $2 AND "memoryType" = $3
SelectTriple(st, userId, key, memoryType) ==
    { row \in st : row.userId = userId /\ row.key = key
                   /\ row.memoryType = memoryType }

\* (mutant) the UPDATE also sets "createdAt" = NOW()
UpdateByIdAndCreatedAt(st, id, valueJson, t) ==
    { IF row.id = id
      THEN [row EXCEPT !.value = valueJson, !.updatedAt = t, !.createdAt = t]
      ELSE row : row \in st }

\* UPDATE chat_memory SET value = $1::json, "updatedAt" = NOW() WHERE id = $2
UpdateById(st, id, valueJson, t) ==
    { IF row.id = id THEN [row EXCEPT !.value = valueJson, !.updatedAt = t]
      ELSE row : row \in st }

\* INSERT INTO chat_memory (id, "userId", key, value, "memoryType",
\* "createdAt", "updatedAt") VALUES ($1, $2, $3, $4::json, 'long_term',
\* NOW(), NOW())
InsertRow(st, id, userId, key, memoryType, valueJson, t) ==
    st \cup { [Row(id, userId, key, memoryType, valueJson)
                  EXCEPT !.createdAt = t, !.updatedAt = t] }

\* the orders in which a statement may return a set of rows
Orders(rows) ==
    { s \in [1 .. Cardinality(rows) -> rows] :
        \A i, j \in DOMAIN s : i # j => s[i] # s[j] }

RowKeys(rowSeq) == [j \in DOMAIN rowSeq |-> rowSeq[j].key]

\* a store without its ids: the (userId, key, memoryType, value) records
View(st) ==
    { [userId |-> row.userId, key |-> row.key,
       memoryType |-> row.memoryType, value |-> row.value] : row \in st }

\* at most one row per (userId, key, memoryType)
Unique(st) ==
    \A x, y \in st :
        (x.userId = y.userId /\ x.key = y.key /\ x.memoryType = y.memoryType)
            => x = y

(***************************************************************************)
(* src/services/rag/service.py: RAGService.get_instance.  A coroutine      *)
(* runs without interruption from one await to the next.                   *)
(***************************************************************************)
Callers == 1 .. MaxCallers

\* instance: cls._instance (None, or the number of the RAGService object);
\* initialized: cls._initialized; created: the RAGService objects
\* constructed so far; ragSystem: rag_system of the instance (None, or the
\* number of the create_multimodal_rag result it holds); completed: the
\* _initialize calls that have returned; caller: where each caller of
\* get_instance is, and the instance it has got
RagStart ==
    [instance |-> None, initialized |-> FALSE, created |-> 0,
     ragSystem |-> None, completed |-> 0,
     caller |-> [c \in Callers |-> [pc |-> "idle", got |-> None]]]

\* `if cls._instance is None: cls._instance = RAGService()`, and __init__
\* with its `self.rag_system = None`
Constructed(g) ==
    IF g.instance = None
    THEN [g EXCEPT !.created = g.created + 1, !.instance = g.created + 1,
                   !.ragSystem = None]
    ELSE g

\* get_instance up to its first suspension: inside _initialize at
\* `await create_multimodal_rag(...)`, or, when _initialized is set, its
\* return
GetInstance(c) ==
    /\ rag.caller[c].pc = "idle"
    /\ LET g == Constructed(rag)
       IN rag' = IF ~g.initialized
                 THEN [g EXCEPT !.caller[c].pc = "initializing"]
                 ELSE [g EXCEPT !.caller[c] =
                                    [pc |-> "returned", got |-> g.instance]]
    /\ UNCHANGED <<store, nextId, req, removed, now, img>>

\* create_multimodal_rag returns: `self.rag_system = ...`, then back in
\* get_instance `cls._initialized = True` and `return cls._instance`
InitializeReturns(c) ==
    /\ rag.caller[c].pc = "initializing"
    /\ rag' = [rag EXCEPT !.ragSystem = rag.completed + 1,
                          !.completed = rag.completed + 1,
                          !.initialized = TRUE,
                          !.caller[c] = [pc |-> "returned", got |-> rag.instance]]
    /\ UNCHANGED <<store, nextId, req, removed, now, img>>

\* create_multimodal_rag raises: `except Exception as e: ... raise`, and
\* get_instance passes the exception on
InitializeRaises(c) ==
    /\ rag.caller[c].pc = "initializing"
    /\ rag' = [rag EXCEPT !.caller[c].pc = "raised"]
    /\ UNCHANGED <<store, nextId, req, removed, now, img>>

(***************************************************************************)
(* src/image-api/main.py: the global `pipe`.  The handlers run on the      *)
(* event loop, one at a time between awaits; generate_image_sync runs on   *)
(* a thread of the executor, at the same time as the event loop.           *)
(***************************************************************************)
\* pipe: the global is not None; loading: reload_model is between its
\* `pipe = None` and the end of load_model(); gen: where each /generate
\* request is
ImgStart ==
    [pipe |-> FALSE, loading |-> FALSE, gen |-> [c \in Callers |-> "idle"]]

\* how load_model() ends: the pipeline is built and moved to the device
\* ("loaded"); from_pretrained raises, and pipe is as before ("failed");
\* pipe.to(DEVICE) or enable_attention_slicing raises after
\* `pipe = DiffusionPipeline.from_pretrained(...)` ("partial")
LoadOutcomes == {"loaded", "failed", "partial"}

\* the global after load_model(), and what load_model() returns
LoadModel(pipe, outcome) ==
    [pipe |-> pipe \/ outcome # "failed", ok |-> outcome = "loaded"]

\* POST /generate up to `await generate_image_async(...)`: the lazy load,
\* the 503, and the call handed to the executor
Generate(c) ==
    /\ img.gen[c] = "idle"
    /\ ~img.loading
    /\ \E outcome \in LoadOutcomes :
        LET l == IF img.pipe THEN [pipe |-> TRUE, ok |-> TRUE]
                 ELSE LoadModel(img.pipe, outcome)
        IN img' = [img EXCEPT !.pipe = l.pipe,
                              !.gen[c] = IF l.ok THEN "queued" ELSE "unavailable"]
    /\ UNCHANGED <<store, nextId, req, removed, now, rag>>

\* generate_image_sync on its thread: `if pipe is None: raise
\* RuntimeError("Model not loaded")`
GenerateCheck(c) ==
    /\ img.gen[c] = "queued"
    /\ img' = [img EXCEPT !.gen[c] = IF img.pipe THEN "checked" ELSE "not_loaded"]
    /\ UNCHANGED <<store, nextId, req, removed, now, rag>>

\* generate_image_sync on its thread: `result = pipe(...)` reads the
\* global again; calling None raises TypeError
GenerateCall(c) ==
    /\ img.gen[c] = "checked"
    /\ img' = [img EXCEPT !.gen[c] = IF img.pipe THEN "done" ELSE "unset"]
    /\ UNCHANGED <<store, nextId, req, removed, now, rag>>

\* POST /unload
Unload ==
    /\ ~img.loading
    /\ img' = [img EXCEPT !.pipe = FALSE]
    /\ UNCHANGED <<store, nextId, req, removed, now, rag>>

\* POST /load: `if pipe is not None: del pipe; pipe = None`
ReloadUnset ==
    /\ ~img.loading
    /\ img' = [img EXCEPT !.pipe = FALSE, !.loading = TRUE]
    /\ UNCHANGED <<store, nextId, req, removed, now, rag>>

\* POST /load: `if load_model(): ... else: raise HTTPException(503)`
ReloadLoad ==
    /\ img.loading
    /\ \E outcome \in LoadOutcomes :
        img' = [img EXCEPT !.pipe = LoadModel(img.pipe, outcome).pipe,
                           !.loading = FALSE]
    /\ UNCHANGED <<store, nextId, req, removed, now, rag>>

(***************************************************************************)
(* State.                                                                  *)
(***************************************************************************)
\* the table before the first request
BaseRows ==
    { Row(1, "u1", KeyAB, "long_term", JsonDumps(ValA)),
      Row(2, "u1", KeyC, "entity", JsonDumps(ValC)),
      Row(3, "u2", KeyAB, "long_term", JsonDumps(ValA)) }

\* ids not in the table yet
FirstFreeId == Cardinality(BaseRows) + 1

\* gateway: how the language-model call ended; operations: the parsed
\* array while extract_memories_with_llm holds it; storeError: a statement
\* of the request has raised; status: the HTTP status code of the response
\* (0 while there is none); query, limit, results: the parameters of a
\* search and the rows it returns; content: the text of the language
\* model's response while extract_memories_with_llm holds it
IdleRequest ==
    [pc |-> "idle", kind |-> "none", userId |-> "u1", memoryType |-> "long_term",
     apply |-> FALSE, detected |-> <<>>, i |-> 0, existing |-> None,
     applied |-> <<>>, deleted |-> <<>>, runs |-> 0, pre |-> {},
     gateway |-> "none", operations |-> <<>>, storeError |-> FALSE,
     status |-> 0, query |-> <<>>, limit |-> 0, results |-> <<>>,
     content |-> <<>>]

\* favorite_food of u1 held in two rows, one per rendering of the value
CakeRows(memoryTypeZh, memoryTypeEn) ==
    { Row(1, "u1", FavoriteFood, memoryTypeZh, JsonDumps(StrawberryCakeZh)),
      Row(2, "u1", FavoriteFood, memoryTypeEn, JsonDumps(StrawberryCake)),
      Row(3, "u2", FavoriteFood, "long_term", JsonDumps(StrawberryCake)) }

\* favorite_food of u1 is "pizza", its only row
PizzaRows ==
    { Row(1, "u1", FavoriteFood, "long_term", JsonDumps(Pizza)),
      Row(3, "u2", FavoriteFood, "long_term", JsonDumps(Pizza)) }

\* the tables of the examples
InitExample ==
    /\ store \in { CakeRows("long_term", "entity"), CakeRows("entity", "long_term"),
                    CakeRows("long_term", "long_term"), PizzaRows }
    /\ nextId = FirstFreeId
    /\ req = [r \in Requests |-> IdleRequest]
    /\ removed = EmptyBag
    /\ now = 0
    /\ rag = RagStart
    /\ img = ImgStart

\* the (u1, "ab", long_term) row is there or not
Init ==
    /\ store \in {BaseRows, BaseRows \ SelectTriple(BaseRows, "u1", KeyAB, "long_term")}
    /\ nextId = FirstFreeId
    /\ req = [r \in Requests |-> IdleRequest]
    /\ removed = EmptyBag
    /\ now = 0
    /\ rag = RagStart
    /\ img = ImgStart

\* the table with a row that POST /memory has saved with memoryType
\* "short_term"
InitClock ==
    /\ store = BaseRows
                \cup { Row(FirstFreeId, "u1", KeyAB, "short_term", JsonDumps(ValA)) }
    /\ nextId = FirstFreeId + 1
    /\ req = [r \in Requests |-> IdleRequest]
    /\ removed = EmptyBag
    /\ now = 0
    /\ rag = RagStart
    /\ img = ImgStart

\* any table that holds at most one row per triple
InitSeq ==
    /\ store \in SUBSET BaseRows
    /\ nextId = FirstFreeId
    /\ req = [r \in Requests |-> IdleRequest]
    /\ removed = EmptyBag
    /\ now = 0
    /\ rag = RagStart
    /\ img = ImgStart

(***************************************************************************)
(* detect_and_apply.                                                       *)
(***************************************************************************)
\* request slots are taken in order (the slots are interchangeable), and
\* a caller that repeats its request does so after the new requests
InOrder(r) ==
    /\ \A q \in Requests : q < r => req[q].pc # "idle"
    /\ \A q \in Requests : req[q].runs <= 1

\* (mutant) the apply flag is not looked at
ShouldApplyAlways(detected, apply) == detected # <<>>

\* (mutant) the early return on an empty list is missing
ShouldApplyWhenEmpty(detected, apply) == apply

\* `if not detected: return ...` and `if data.apply:`
ShouldApply(detected, apply) == detected # <<>> /\ apply

\* the loop moves on to the next op; after the last one the response is
\* built without another await
Advance(q) ==
    IF q.i + 1 > Len(q.detected)
    THEN [q EXCEPT !.pc = "done", !.i = q.i + 1, !.existing = None,
                   !.status = 200]
    ELSE [q EXCEPT !.pc = "op", !.i = q.i + 1, !.existing = None]

\* how `await client.post(...)` and the reading of its response end:
\* a 200 response with a JSON array in it, a response with another status
\* code, or an exception (timeout, connection error, no "choices" in the
\* body, json.loads raising)
GatewayOutcomes == {"ok", "status", "exception"}

\* (mutant) the status code is not checked and the exception not caught
\* before the validation loop
ExtractMemoriesUnguarded(gateway, operations) == ValidOps(operations)

\* what extract_memories_with_llm returns: valid_ops, or [] on a status
\* code other than 200 and on any exception
ExtractMemories(gateway, operations) ==
    IF gateway = "ok" THEN ValidOps(operations) ELSE <<>>

\* the handler at `await extract_memories_with_llm(data.message)`, when the
\* gateway call has ended
LlmRequest(userId, apply, gateway, operations) ==
    [IdleRequest EXCEPT !.kind = "detect", !.pc = "llm", !.userId = userId,
                        !.apply = apply, !.gateway = gateway,
                        !.operations = operations, !.runs = 1]

\* extract_memories_with_llm at its return: valid_ops is built
Validated(q) ==
    [q EXCEPT !.pc = "validated",
              !.detected = ExtractMemories(q.gateway, q.operations)]

\* the handler once extract_memories_with_llm has returned: the early
\* return of a success result, or the first operation
Proceeded(q) ==
    LET p == [q EXCEPT !.operations = <<>>, !.content = <<>>]
    IN IF ShouldApply(q.detected, q.apply)
       THEN [p EXCEPT !.pc = "op", !.i = 1]
       ELSE [p EXCEPT !.pc = "done", !.status = 200]

\* POST /memory/detect: the language-model call, validation, and the
\* early returns
StartDetect(r) ==
    /\ req[r].pc = "idle"
    /\ InOrder(r)
    /\ \E userId \in Users, apply \in BOOLEAN, gateway \in GatewayOutcomes,
          operations \in Responses :
        req' = [req EXCEPT ![r] =
                    Proceeded(Validated(
                        LlmRequest(userId, apply, gateway, operations)))]
    /\ UNCHANGED <<store, nextId, removed, now, rag, img>>

\* the rows a delete op takes out of the table
DeleteRows(st, userId, op) == DeleteMatching(st, userId, Str(op.key))

\* action == "delete": one DELETE ... RETURNING id, key
DeleteStep(r) ==
    /\ req[r].pc = "op"
    /\ req[r].kind = "detect"
    /\ req[r].detected[req[r].i].action = "delete"
    /\ LET q == req[r]
           rows == DeleteRows(store, q.userId, q.detected[q.i])
       IN /\ store' = store \ rows
          /\ removed' = removed (+) SetToBag({ row.id : row \in rows })
          /\ \E result \in Orders(rows) :
                req' = [req EXCEPT ![r] =
                    Advance([q EXCEPT !.deleted = q.deleted \o RowKeys(result)])]
    /\ UNCHANGED <<nextId, now, rag, img>>

\* what fetchrow may return: one of the rows, or None
FetchRow(rows) == IF rows = {} THEN {None} ELSE { row.id : row \in rows }

\* (mutant) the exception is swallowed and the loop goes on
AfterFailureSwallowed(q) == Advance([q EXCEPT !.storeError = TRUE])

\* `except Exception as e: raise HTTPException(status_code=500, ...)`:
\* the request ends as a failure, and the handler's lists are not returned
AfterFailure(q) ==
    [IdleRequest EXCEPT !.pc = "failed", !.kind = q.kind, !.userId = q.userId,
                        !.memoryType = q.memoryType, !.apply = q.apply,
                        !.runs = q.runs, !.gateway = q.gateway,
                        !.storeError = TRUE, !.status = 500]

\* the statement is not sent: asyncpg raises while it encodes the
\* arguments, and `except Exception` makes it a 500
AfterBindError(q) == [AfterFailure(q) EXCEPT !.storeError = FALSE]

\* existing = await conn.fetchrow(SELECT id ..., data.userId, key)
CheckExisting(r, memoryType) ==
    /\ req[r].pc = "op"
    /\ LET q == req[r]
           op == q.detected[q.i]
       IN /\ op.action = "update"
          /\ IF IsStr(op.key)
             THEN \E existing \in FetchRow(SelectTriple(store, q.userId, op.key,
                                                        memoryType)) :
                    req' = [req EXCEPT ![r] =
                             [q EXCEPT !.pc = "write", !.existing = existing]]
             ELSE req' = [req EXCEPT ![r] = AfterBindError(q)]
    /\ UNCHANGED <<store, nextId, removed, now, rag, img>>

\* (mutant) the existence check is not used: always INSERT
WriteResultAlwaysInsert(st, existing, id, userId, key, memoryType, valueJson, t) ==
    InsertRow(st, id, userId, key, memoryType, valueJson, t)

\* the table after `if existing: UPDATE ... else: INSERT ...`
WriteResult(st, existing, id, userId, key, memoryType, valueJson, t) ==
    IF existing # None
    THEN UpdateById(st, existing, valueJson, t)
    ELSE InsertRow(st, id, userId, key, memoryType, valueJson, t)

WriteValue(r, memoryType) ==
    /\ req[r].pc = "write"
    /\ LET q == req[r]
           op == q.detected[q.i]
       IN /\ store' = WriteResult(store, q.existing, nextId, q.userId, op.key,
                                  memoryType, JsonDumps(op.value), now)
          /\ nextId' = IF q.existing # None THEN nextId ELSE nextId + 1
          /\ req' = [req EXCEPT ![r] =
                        Advance([q EXCEPT !.applied = Append(q.applied, op.key)])]
    /\ UNCHANGED <<removed, now, rag, img>>

\* action == "update": the existence check
UpdateCheck(r) == req[r].kind = "detect" /\ CheckExisting(r, "long_term")

\* (mutant) the row is written to the entity partition
UpdateWriteEntity(r) == req[r].kind = "detect" /\ WriteValue(r, "entity")

\* action == "update": the UPDATE or the INSERT, then applied.append(key)
UpdateWrite(r) == req[r].kind = "detect" /\ WriteValue(r, "long_term")

\* a statement raises (the store cannot be reached)
StoreFail(r) ==
    /\ req[r].pc \in {"op", "write"}
    /\ req' = [req EXCEPT ![r] = AfterFailure(req[r])]
    /\ UNCHANGED <<store, nextId, removed, now, rag, img>>

\* no request is between its first and its last statement
Quiet == \A q \in Requests : req[q].pc \in {"idle", "done", "failed"}

\* the caller of a finished detect-and-apply call sends the same request
\* again, and detection yields the same operations; pre keeps the table as
\* it is when the repeated call begins
Retry(r) ==
    /\ Quiet
    /\ req[r].pc = "done"
    /\ req[r].kind = "detect"
    /\ req[r].runs < MaxRuns
    /\ \A q \in Requests \ {r} : req[q].runs <= 1
    /\ ShouldApply(req[r].detected, req[r].apply)
    /\ req' = [req EXCEPT ![r] =
                [req[r] EXCEPT !.pc = "op", !.i = 1, !.applied = <<>>,
                               !.deleted = <<>>, !.runs = req[r].runs + 1,
                               !.pre = View(store), !.status = 0]]
    /\ UNCHANGED <<store, nextId, removed, now, rag, img>>

(***************************************************************************)
(* save_memory.                                                            *)
(***************************************************************************)
\* POST /memory
StartSave(r) ==
    /\ req[r].pc = "idle"
    /\ InOrder(r)
    /\ \E userId \in Users, key \in {KeyAB, KeyC}, value \in {ValA},
          memoryType \in MemTypes :
        req' = [req EXCEPT ![r] =
                 [IdleRequest EXCEPT !.kind = "save", !.userId = userId,
                                     !.memoryType = memoryType, !.pc = "op", !.i = 1,
                                     !.detected = <<UpdateOp(key, value)>>,
                                     !.runs = 1]]
    /\ UNCHANGED <<store, nextId, removed, now, rag, img>>

\* existing = await conn.fetchrow(...)
SaveCheck(r) == req[r].kind = "save" /\ CheckExisting(r, req[r].memoryType)

\* the UPDATE or the INSERT
SaveWrite(r) == req[r].kind = "save" /\ WriteValue(r, req[r].memoryType)

(***************************************************************************)
(* delete_memory.                                                          *)
(***************************************************************************)
\* `except Exception as e: raise HTTPException(status_code=500, ...)`
\* around the body of delete_memory: HTTPException is an Exception, so the
\* clause also catches the HTTPException(status_code=400) that the body
\* raises, and the response carries 500 whatever the body raised
RaisedInTry(statusCode) == 500

\* DELETE /memory?userId=..&key=..&id=..: `if id`, `elif key`, and
\* otherwise the HTTPException(400) raised inside the try; an absent
\* parameter is None, resp. the empty string.  The one statement of the
\* handler may raise (the store cannot be reached).
DeleteMemory(r) ==
    /\ req[r].pc = "idle"
    /\ InOrder(r)
    /\ \E userId \in Users, id \in {None} \cup { row.id : row \in BaseRows },
          key \in {<<>>, KeyAB, KeyC} :
        LET rows == IF id # None THEN DeleteById(store, userId, id)
                    ELSE IF key # <<>> THEN DeleteByKey(store, userId, key)
                    ELSE {}
            q == [IdleRequest EXCEPT !.kind = "remove", !.userId = userId,
                                     !.runs = 1]
        IN \/ /\ store' = store \ rows
              /\ req' = [req EXCEPT ![r] =
                           IF id = None /\ key = <<>>
                           THEN [q EXCEPT !.pc = "failed",
                                          !.status = RaisedInTry(400)]
                           ELSE [q EXCEPT !.pc = "done", !.status = 200]]
           \/ /\ id # None \/ key # <<>>
              /\ store' = store
              /\ req' = [req EXCEPT ![r] = AfterFailure(q)]
    /\ UNCHANGED <<nextId, removed, now, rag, img>>

(***************************************************************************)
(* search_memories, and the clock behind NOW().                            *)
(***************************************************************************)
\* time passes on the database server
Tick ==
    /\ now < MaxTime
    /\ now' = now + 1
    /\ UNCHANGED <<store, nextId, req, removed, rag, img>>

\* WHERE "userId" = $1 AND (key ILIKE $2 OR value::text ILIKE $2)
\* AND "memoryType" IN ('long_term', 'entity'), with $2 = f"%{data.query}%"
SearchMatch(row, userId, query) ==
    /\ row.userId = userId
    /\ \/ ILike(row.key, FuzzyPattern(query))
       \/ ILike(ValueText(row.value), FuzzyPattern(query))
    /\ row.memoryType \in {"long_term", "entity"}

\* ORDER BY "updatedAt" DESC: the orders the statement may return rows in
\* (rows of one timestamp in any order)
NewestFirst(rows) ==
    { s \in Orders(rows) :
        \A j, k \in DOMAIN s : j < k => s[j].updatedAt >= s[k].updatedAt }

\* SELECT key, value, "memoryType", "updatedAt"
Selected(row) ==
    [key |-> row.key, value |-> row.value, memoryType |-> row.memoryType,
     updatedAt |-> row.updatedAt]

\* LIMIT $3
Limit(s, limit) ==
    [j \in 1 .. (IF limit < Len(s) THEN limit ELSE Len(s)) |-> Selected(s[j])]

\* the search strings and limits of the requests
Queries == { <<>>, <<"a">>, <<"C">>, <<"_">> }
Limits == { -1, 1, 2 }

\* POST /memory/search: one SELECT.  The statement raises when the store
\* cannot be reached and when the limit is negative (PostgreSQL: LIMIT
\* must not be negative); `except Exception` makes it a 500.
Search(r) ==
    /\ req[r].pc = "idle"
    /\ InOrder(r)
    /\ \E userId \in Users, query \in Queries, limit \in Limits :
        LET q == [IdleRequest EXCEPT !.kind = "search", !.userId = userId,
                                     !.query = query, !.limit = limit,
                                     !.runs = 1]
            rows == { row \in store : SearchMatch(row, userId, query) }
        IN \/ /\ limit >= 0
              /\ \E s \in NewestFirst(rows) :
                    req' = [req EXCEPT ![r] =
                             [q EXCEPT !.pc = "done", !.status = 200,
                                       !.results = Limit(s, limit)]]
           \/ req' = [req EXCEPT ![r] =
                        [AfterFailure(q) EXCEPT !.query = query, !.limit = limit]]
    /\ UNCHANGED <<store, nextId, removed, now, rag, img>>

(***************************************************************************)
(* detect_and_apply, with extract_memories_with_llm step by step.          *)
(***************************************************************************)
\* `await client.post(...)` has ended and the response is parsed
ReceiveResponse(r) ==
    /\ req[r].pc = "idle"
    /\ \E userId \in Users, apply \in BOOLEAN, gateway \in GatewayOutcomes,
          operations \in ValidatorResponses :
        req' = [req EXCEPT ![r] = LlmRequest(userId, apply, gateway, operations)]
    /\ UNCHANGED <<store, nextId, removed, now, rag, img>>

\* (mutant) there is no `except Exception` around json.loads: the
\* JSONDecodeError leaves extract_memories_with_llm and the handler turns
\* it into a 500
ParsedRequestUncaught(userId, apply, content) ==
    LET q == [LlmRequest(userId, apply, "ok", Parsed(content).operations)
                EXCEPT !.content = content]
    IN IF Parsed(content).raised THEN AfterBindError(q) ELSE q

\* the handler inside extract_memories_with_llm when the text of a 200
\* response has been parsed: json.loads raising is one of the exceptions
\* that `except Exception` catches
ParsedRequest(userId, apply, content) ==
    [LlmRequest(userId, apply,
                IF Parsed(content).raised THEN "exception" ELSE "ok",
                Parsed(content).operations)
        EXCEPT !.content = content]

\* `await client.post(...)` has returned a 200 response with this text
ParseResponse(r) ==
    /\ req[r].pc = "idle"
    /\ \E userId \in Users, apply \in BOOLEAN, content \in Texts :
        req' = [req EXCEPT ![r] = ParsedRequest(userId, apply, content)]
    /\ UNCHANGED <<store, nextId, removed, now, rag, img>>

\* the validation loop, up to `return valid_ops`
Validate(r) ==
    /\ req[r].pc = "llm"
    /\ req' = [req EXCEPT ![r] = Validated(req[r])]
    /\ UNCHANGED <<store, nextId, removed, now, rag, img>>

\* back in detect_and_apply: `if not detected` and `if data.apply`
Proceed(r) ==
    /\ req[r].pc = "validated"
    /\ req' = [req EXCEPT ![r] = Proceeded(req[r])]
    /\ UNCHANGED <<store, nextId, removed, now, rag, img>>

\* POST /memory/detect for a message of the examples; pre keeps the table
\* as it is when the call begins
ExampleDetect(r) ==
    /\ req[r].pc = "idle"
    /\ \E userId \in Users, apply \in BOOLEAN, operations \in ExampleResponses :
        req' = [req EXCEPT ![r] =
                 [Proceeded(Validated(LlmRequest(userId, apply, "ok", operations)))
                    EXCEPT !.pre = View(store)]]
    /\ UNCHANGED <<store, nextId, removed, now, rag, img>>

(***************************************************************************)
(* Specifications.                                                         *)
(***************************************************************************)
\* concurrent handlers: any request may take its next step
Next ==
    \E r \in Requests :
        \/ StartDetect(r)
        \/ DeleteStep(r)
        \/ UpdateCheck(r)
        \/ UpdateWrite(r)
        \/ StartSave(r)
        \/ SaveCheck(r)
        \/ SaveWrite(r)
        \/ DeleteMemory(r)
        \/ StoreFail(r)

Spec == Init /\ [][Next]_vars

\* no other request is between its first and its last statement
Alone(r) == \A q \in Requests \ {r} : req[q].pc \in {"idle", "done", "failed"}

\* requests served one after another, and a caller that may send its
\* request again
NextSeq ==
    \E r \in Requests :
        \/ Alone(r) /\ StartDetect(r)
        \/ Alone(r) /\ DeleteStep(r)
        \/ Alone(r) /\ UpdateCheck(r)
        \/ Alone(r) /\ UpdateWrite(r)
        \/ Alone(r) /\ StartSave(r)
        \/ Alone(r) /\ SaveCheck(r)
        \/ Alone(r) /\ SaveWrite(r)
        \/ Alone(r) /\ DeleteMemory(r)
        \/ Alone(r) /\ StoreFail(r)
        \/ Retry(r)

SpecSeq == InitSeq /\ [][NextSeq]_vars

\* concurrent handlers, and then a caller that sends its request again
NextRetry ==
    \E r \in Requests :
        \/ StartDetect(r)
        \/ DeleteStep(r)
        \/ UpdateCheck(r)
        \/ UpdateWrite(r)
        \/ StartSave(r)
        \/ SaveCheck(r)
        \/ SaveWrite(r)
        \/ DeleteMemory(r)
        \/ StoreFail(r)
        \/ Retry(r)

SpecRetry == Init /\ [][NextRetry]_vars

\* requests served one after another while time passes: detect-and-apply
\* and search
NextClock ==
    \/ Tick
    \/ \E r \in Requests : Alone(r) /\ StartDetect(r)
    \/ \E r \in Requests : Alone(r) /\ DeleteStep(r)
    \/ \E r \in Requests : Alone(r) /\ UpdateCheck(r)
    \/ \E r \in Requests : Alone(r) /\ UpdateWrite(r)
    \/ \E r \in Requests : Alone(r) /\ StoreFail(r)
    \/ \E r \in Requests : Alone(r) /\ Search(r)

SpecClock == InitClock /\ [][NextClock]_vars

\* concurrent callers of RAGService.get_instance
NextRag ==
    \E c \in Callers :
        \/ GetInstance(c)
        \/ InitializeReturns(c)
        \/ InitializeRaises(c)

SpecRag == Init /\ [][NextRag]_vars

\* concurrent requests to the image API
NextImage ==
    \/ \E c \in Callers : Generate(c)
    \/ \E c \in Callers : GenerateCheck(c)
    \/ \E c \in Callers : GenerateCall(c)
    \/ Unload
    \/ ReloadUnset
    \/ ReloadLoad

SpecImage == Init /\ [][NextImage]_vars

\* the request that is followed when one request is looked at alone
FirstRequest == CHOOSE r \in Requests : \A q \in Requests : r <= q

\* one detect-and-apply request, from the language model's response to
\* its end, on the elements the validator is examined on
NextExtract ==
    \/ ReceiveResponse(FirstRequest)
    \/ Validate(FirstRequest)
    \/ Proceed(FirstRequest)
    \/ DeleteStep(FirstRequest)
    \/ UpdateCheck(FirstRequest)
    \/ UpdateWrite(FirstRequest)
    \/ StoreFail(FirstRequest)

SpecExtract == Init /\ [][NextExtract]_vars

\* one detect-and-apply request, from the text of the language model's
\* response to its end
NextParse ==
    \/ ParseResponse(FirstRequest)
    \/ Validate(FirstRequest)
    \/ Proceed(FirstRequest)
    \/ DeleteStep(FirstRequest)
    \/ StoreFail(FirstRequest)

SpecParse == Init /\ [][NextParse]_vars

\* one detect-and-apply request on a table of the examples
NextExample ==
    \/ ExampleDetect(FirstRequest)
    \/ DeleteStep(FirstRequest)
    \/ UpdateCheck(FirstRequest)
    \/ UpdateWrite(FirstRequest)
    \/ StoreFail(FirstRequest)

SpecExample == InitExample /\ [][NextExample]_vars

(***************************************************************************)
(* Steps, as the properties below name them.                               *)
(***************************************************************************)
\* request r executes the statement of its current delete op
DeleteTaken(r) ==
    /\ req[r].kind = "detect"
    /\ req[r].pc = "op"
    /\ req[r].detected[req[r].i].action = "delete"
    /\ req'[r].i = req[r].i + 1

\* detect-and-apply request r executes the write of its current update op
WriteTaken(r) ==
    /\ req[r].kind = "detect"
    /\ req[r].pc = "write"
    /\ req'[r].i = req[r].i + 1

\* the op request r is at
CurrentOp(r) == req[r].detected[req[r].i]

\* request r is idle, or a detect-and-apply call, not failed, whose
\* operations are all updates
OnlyUpdates(r) ==
    /\ req[r].kind \in {"none", "detect"}
    /\ req[r].pc # "failed"
    /\ \A j \in DOMAIN req[r].detected : req[r].detected[j].action = "update"

\* request r executes an UPDATE or an INSERT (detect-and-apply or save_memory)
AnyWriteTaken(r) == req[r].pc = "write" /\ req'[r].i = req[r].i + 1

\* the op before the current delete of r was the same delete: the one
\* before it in the request, or the single op of the request as the caller
\* sent it just before
SameDeleteJustApplied(r) ==
    \/ req[r].i >= 2 /\ req[r].detected[req[r].i - 1] = CurrentOp(r)
    \/ req[r].i = 1 /\ Len(req[r].detected) = 1 /\ req[r].runs = MaxRuns

\* the table once the DELETE of op has run for userId
AfterDelete(st, userId, op) == st \ DeleteRows(st, userId, op)

\* the next statement of request r is the DELETE of a delete op
DeleteDue(r) ==
    /\ req[r].kind = "detect"
    /\ req[r].pc = "op"
    /\ CurrentOp(r).action = "delete"

\* every id a DELETE returned was returned once, and its row is gone
RemovedOnce ==
    \A id \in BagToSet(removed) :
        CopiesIn(id, removed) = 1 /\ \A row \in store : row.id # id

\* row is a row of userId whose key or serialized value contains term
ContainsTerm(row, userId, term) ==
    /\ row.userId = userId
    /\ (Contains(row.key, term) \/ Contains(ValueText(row.value), term))

\* the language-model call of detect-and-apply request q has failed
GatewayFailed(q) == q.kind = "detect" /\ q.gateway \in {"status", "exception"}

\* the update operations among ops, in order
UpdatesOf(ops) == SelectSeq(ops, LAMBDA op : op.action = "update")

\* e is an update element: a JSON object with a key whose action is
\* "update", or absent
IsUpdateElement(e) ==
    e.isDict /\ e.hasKey /\ (~e.hasAction \/ e.action = "update")

\* the update operations the elements of a response are to produce: none
\* for an element without a value, with an empty value, with a value of
\* 100 characters or more, or with a placeholder token as its value; the
\* Update{key, value} of the element for a value of 1 to 99 characters
\* that is no placeholder token
RECURSIVE ExpectedUpdates(_)
ExpectedUpdates(operations) ==
    IF operations = <<>> THEN <<>>
    ELSE LET e == Head(operations)
             rejected == \/ ~e.hasValue
                         \/ e.value = <<>>
                         \/ Len(e.value) >= 100
                         \/ e.value \in {ValWhat, ValWho, ValWhich}
         IN (IF IsUpdateElement(e) /\ ~rejected
             THEN <<UpdateOp(e.key, e.value)>> ELSE <<>>)
                \o ExpectedUpdates(Tail(operations))

\* the validator has gone through a response of request r in which it
\* accepts every element
ValidatedAll(r) ==
    /\ req[r].pc = "validated"
    /\ req[r].gateway = "ok"
    /\ \A j \in DOMAIN req[r].operations :
            ValidateElement(req[r].operations[j]) # <<>>

\* the operations of request r are those of the elements of its response,
\* one each and in the same order
EmittedInOrder(r) ==
    /\ Len(req[r].detected) = Len(req[r].operations)
    /\ \A j \in DOMAIN req[r].operations :
        /\ req[r].detected[j].key = req[r].operations[j].key
        /\ req[r].detected[j].action = "delete"
            <=> (req[r].operations[j].hasAction
                    /\ req[r].operations[j].action = "delete")

\* the op before the one request r is at
PreviousOp(r) == req[r].detected[req[r].i - 1]

\* request r executes the write of Update{k, v}, and its op before was a
\* Delete whose term occurs in k
WriteAfterDelete(r) ==
    /\ WriteTaken(r)
    /\ req[r].i >= 2
    /\ PreviousOp(r).action = "delete"
    /\ Contains(CurrentOp(r).key, PreviousOp(r).key)

\* request r executes a Delete, and its op before was an Update{k, v} with
\* the Delete's term in k or in v
DeleteAfterUpdate(r) ==
    /\ DeleteTaken(r)
    /\ req[r].i >= 2
    /\ PreviousOp(r).action = "update"
    /\ \/ Contains(PreviousOp(r).key, CurrentOp(r).key)
       \/ Contains(PreviousOp(r).value, CurrentOp(r).key)

\* e is a delete element: a JSON object with a key whose action is "delete"
IsDeleteElement(e) == e.isDict /\ e.hasKey /\ e.hasAction /\ e.action = "delete"

\* the delete operations among ops, in order
DeletesOf(ops) == SelectSeq(ops, LAMBDA op : op.action = "delete")

\* e is a valid element: a JSON object with a string as its key that is a
\* delete element, or an update element with an acceptable value
ValidElement(e) ==
    /\ e.isDict /\ e.hasKey /\ IsStr(e.key)
    /\ IsDeleteElement(e) \/ ExpectedUpdates(<<e>>) # <<>>

\* the operation of a valid element
OperationOf(e) ==
    IF IsDeleteElement(e) THEN DeleteOp(e.key) ELSE UpdateOp(e.key, e.value)

\* the operations of the valid elements of a response, in order
ExpectedValid(operations) ==
    LET valid == SelectSeq(operations, ValidElement)
    IN [j \in DOMAIN valid |-> OperationOf(valid[j])]

\* the text that is parsed has no "[", or no "]", or its last "]" stands
\* before its first "[", or what stands from its first "[" to its last
\* "]" is not valid JSON
Unparsable(text) ==
    LET opens == { j \in DOMAIN text : text[j] = "[" }
        closes == { j \in DOMAIN text : text[j] = "]" }
    IN \/ opens = {}
       \/ closes = {}
       \/ \E j \in opens, k \in closes :
            /\ \A m \in opens : j <= m
            /\ \A m \in closes : m <= k
            /\ k < j \/ ~JsonLoadsReturns(SubSeq(text, j, k))

\* the rows of userId with key favorite_food
FavoriteFoodRows(st, userId) ==
    { row \in st : row.userId = userId /\ row.key = FavoriteFood }

\* when the call of request r began, the favorite_food records of its user
\* were the given ones, holding values
FavoriteFoodWas(r, values) ==
    LET recs == { v \in req[r].pre :
                    v.userId = req[r].userId /\ v.key = FavoriteFood }
    IN /\ Cardinality(recs) = Cardinality(values)
       /\ { v.value : v \in recs } = { JsonDumps(value) : value \in values }

\* request r has returned its result for the operations of response
Returned(r, response) ==
    /\ req[r].kind = "detect"
    /\ req[r].pc = "done"
    /\ req[r].apply
    /\ req[r].detected = ValidOps(response)

\* the number of entries in the deleted lists of the requests rs
RECURSIVE ReportedDeletes(_)
ReportedDeletes(rs) ==
    IF rs = {} THEN 0
    ELSE LET r == CHOOSE x \in rs : TRUE
         IN Len(req[r].deleted) + ReportedDeletes(rs \ {r})

\* st holds the record that the current Update of request r writes
Written(st, r) ==
    \E row \in SelectTriple(st, req[r].userId, CurrentOp(r).key, "long_term") :
        row.value = JsonDumps(CurrentOp(r).value)

\* request r goes from a statement to the failure result
FailTaken(r) ==
    /\ req[r].kind = "detect"
    /\ req[r].pc \in {"op", "write"}
    /\ req'[r].pc = "failed"

\* the rows of st that do not belong to userId
RowsOfOthers(st, userId) == { row \in st : row.userId # userId }

\* the rows of st outside the long_term partition
OtherPartitions(st) == { row \in st : row.memoryType # "long_term" }

\* detect-and-apply request r takes a step
DetectStep(r) == req'[r] # req[r] /\ req'[r].kind = "detect"

(***************************************************************************)
(* C1.  In every reachable state, under any interleaving of concurrent     *)
(* detect-and-apply and save_memory requests, the table holds at most one  *)
(* row for each (userId, key, memoryType).                                 *)
(***************************************************************************)
C1_UniqueTriple == Unique(store)

(***************************************************************************)
(* C2.  Requests served one after another, from any table with at most one *)
(* row per triple: when an Update{k, v} of a detect-and-apply request has  *)
(* been written, exactly one long_term row of that user has key k, and it  *)
(* holds v.  So after Update{k, v1} .. Update{k, vn} the one row holds vn. *)
(***************************************************************************)
C2_UpsertExactlyOne ==
    [][\A r \in Requests :
        WriteTaken(r) =>
            \E row \in store' :
                /\ SelectTriple(store', req[r].userId, CurrentOp(r).key, "long_term")
                        = {row}
                /\ row.value = JsonDumps(CurrentOp(r).value)]_vars

\* a request has applied Update{"ab", "A"} then Update{"ab", "c"}, and the
\* one row holds "c"
C2_Witness ==
    \E r \in Requests :
        /\ req[r].pc = "done"
        /\ req[r].detected = <<UpdateOp(KeyAB, ValA), UpdateOp(KeyAB, ValC)>>
        /\ req[r].applied = <<KeyAB, KeyAB>>
        /\ \E row \in store :
            /\ SelectTriple(store, req[r].userId, KeyAB, "long_term") = {row}
            /\ row.value = JsonDumps(ValC)

(***************************************************************************)
(* C3.  Between the existence check of an Update and its write, no write   *)
(* (UPDATE or INSERT) of another request changes the rows of that          *)
(* (userId, key, 'long_term').                                             *)
(***************************************************************************)
C3_CriticalSection ==
    [][\A r \in Requests :
        (/\ req[r].kind = "detect" /\ req[r].pc = "write"
         /\ \E q \in Requests \ {r} : AnyWriteTaken(q)) =>
            SelectTriple(store', req[r].userId, CurrentOp(r).key, "long_term")
                = SelectTriple(store, req[r].userId, CurrentOp(r).key, "long_term")]_vars

(***************************************************************************)
(* C4.  Requests that apply only Update operations, concurrently: after a  *)
(* write of Update{k, v}, every row of (userId, k, 'long_term') holds v,   *)
(* the value written last, and there is such a row.                        *)
(***************************************************************************)
C4_LastWriteWins ==
    [][\A r \in Requests :
        (WriteTaken(r) /\ \A q \in Requests : OnlyUpdates(q)) =>
            LET rows == SelectTriple(store', req[r].userId, CurrentOp(r).key,
                                     "long_term")
            IN /\ rows # {}
               /\ \A row \in rows : row.value = JsonDumps(CurrentOp(r).value)]_vars

(***************************************************************************)
(* C5.  Requests served one after another: when a Delete{key} is applied   *)
(* right after the same Delete{key} (the op before it in the request, or   *)
(* the single op of the request the caller has just sent before), it       *)
(* removes no row, adds nothing to deleted, and the request goes on.       *)
(***************************************************************************)
C5_DeleteIdempotent ==
    [][\A r \in Requests :
        (DeleteTaken(r) /\ SameDeleteJustApplied(r)) =>
            /\ store' = store
            /\ req'[r].deleted = req[r].deleted
            /\ req'[r].pc \in {"op", "done"}]_vars

\* Delete{"a"} twice in one request: the first removed a row, the second
\* ran and the request ended
C5_Witness ==
    \E r \in Requests :
        /\ req[r].pc = "done"
        /\ req[r].detected = <<DeleteOp(<<"a">>), DeleteOp(<<"a">>)>>
        /\ Len(req[r].deleted) = 1
        /\ DeleteMatching(store, req[r].userId, <<"a">>) = {}

(***************************************************************************)
(* C6.  Concurrent requests: when a request executes a Delete while        *)
(* another request is about to execute one, the table after both is the    *)
(* same in either order; a delete that is due can always be executed,      *)
(* whatever the table holds; and no row id is ever returned by two DELETE  *)
(* statements.                                                             *)
(***************************************************************************)
C6_DeletesCommute ==
    /\ [](RemovedOnce /\ \A r \in Requests : DeleteDue(r) => ENABLED DeleteStep(r))
    /\ [][\A r \in Requests : DeleteTaken(r) =>
            \A q \in Requests \ {r} : DeleteDue(q) =>
                AfterDelete(store', req[q].userId, CurrentOp(q))
                    = AfterDelete(AfterDelete(store, req[q].userId, CurrentOp(q)),
                                  req[r].userId, CurrentOp(r))]_vars

\* two requests of one user have deleted concurrently, Delete{"a"} and
\* Delete{"_"}, and each has removed a row
C6_Witness ==
    \E r, q \in Requests :
        /\ r # q
        /\ req[r].pc = "done" /\ req[q].pc = "done"
        /\ req[r].userId = req[q].userId
        /\ req[r].detected = <<DeleteOp(<<"a">>)>>
        /\ req[q].detected = <<DeleteOp(<<"_">>)>>
        /\ Len(req[r].deleted) = 1 /\ Len(req[q].deleted) = 1
        /\ BagCardinality(removed) = 2

(***************************************************************************)
(* C7.  A Delete{key} of user u removes exactly the rows of u whose key or *)
(* serialized value contains the search term as a case-insensitive         *)
(* substring, for every search term; every other row is left unchanged.    *)
(***************************************************************************)
C7_DeleteExactlySubstring ==
    [][\A r \in Requests : DeleteTaken(r) =>
        /\ store' \subseteq store
        /\ store \ store' =
            { row \in store : ContainsTerm(row, req[r].userId, CurrentOp(r).key) }]_vars

(***************************************************************************)
(* C8.  No Delete operation that the validator emits, and so none that is  *)
(* applied, carries an empty search term.                                  *)
(***************************************************************************)
C8_NoEmptyDelete ==
    \A r \in Requests : \A j \in DOMAIN req[r].detected :
        req[r].detected[j].action = "delete" => req[r].detected[j].key # <<>>

(***************************************************************************)
(* C9.  Every step of a detect-and-apply request whose apply is false      *)
(* leaves the table unchanged and ends the request with empty applied and  *)
(* deleted lists: the request never gets to a statement.                   *)
(***************************************************************************)
C9_DryRun ==
    [][\A r \in Requests :
        (req'[r] # req[r] /\ req'[r].kind = "detect" /\ ~req'[r].apply) =>
            /\ store' = store
            /\ nextId' = nextId
            /\ req'[r].pc = "done"
            /\ req'[r].applied = <<>>
            /\ req'[r].deleted = <<>>]_vars

\* a dry run that detected a Delete{""} and an Update, with the table as it
\* was at the start
C9_Witness ==
    \E r \in Requests :
        /\ req[r].pc = "done"
        /\ ~req[r].apply
        /\ req[r].detected = <<DeleteOp(<<>>), UpdateOp(KeyAB, ValC)>>
        /\ req[r].applied = <<>> /\ req[r].deleted = <<>>
        /\ store = BaseRows

(***************************************************************************)
(* C10.  When the caller sends a finished detect-and-apply request again   *)
(* and then once more, the table holds the same (userId, key, memoryType,  *)
(* value) records after the second of these runs as after the first.       *)
(***************************************************************************)
C10_RetrySafe ==
    [][\A r \in Requests :
        (/\ req[r].runs = MaxRuns
         /\ req[r].pc \in {"op", "write"}
         /\ req'[r].pc = "done") => View(store') = req[r].pre]_vars

(***************************************************************************)
(* C11.  A detect-and-apply request whose language-model call failed (a    *)
(* status code other than 200, or a timeout or any other exception while   *)
(* the response is read and parsed) ends as a success result with empty    *)
(* detected, applied and deleted lists, never as a failure, and its steps  *)
(* leave the table unchanged.                                              *)
(***************************************************************************)
C11_GatewayFailureRecovered ==
    /\ [](\A r \in Requests : GatewayFailed(req[r]) =>
            /\ req[r].pc = "done"
            /\ req[r].detected = <<>>
            /\ req[r].applied = <<>>
            /\ req[r].deleted = <<>>)
    /\ [][\A r \in Requests :
            (GatewayFailed(req'[r]) /\ req'[r] # req[r]) =>
                store' = store /\ nextId' = nextId]_vars

\* a request with apply set whose language-model call raised has returned
\* its success result
C11_Witness ==
    \E r \in Requests :
        /\ req[r].kind = "detect"
        /\ req[r].gateway = "exception"
        /\ req[r].apply
        /\ req[r].pc = "done"
        /\ req[r].detected = <<>>

(***************************************************************************)
(* C12.  A detect-and-apply request one of whose statements on the store   *)
(* raised has ended as a failure (HTTP 500), and a failed request never    *)
(* turns into a success result.                                            *)
(***************************************************************************)
C12_StoreFailureReported ==
    /\ [](\A r \in Requests :
            (req[r].kind = "detect" /\ req[r].storeError) => req[r].pc = "failed")
    /\ [][\A r \in Requests :
            (req[r].kind = "detect" /\ req[r].pc = "failed") =>
                req'[r].pc = "failed"]_vars

\* a request has failed at its second operation, after its first one, a
\* Delete, had removed a row
C12_Witness ==
    \E r \in Requests :
        /\ req[r].kind = "detect"
        /\ req[r].pc = "failed"
        /\ req[r].storeError
        /\ \A q \in Requests \ {r} : req[q].pc = "idle"
        /\ BagCardinality(removed) = 1

C15_PizzaScenario ==
    \A r \in Requests :
        (Returned(r, PizzaResponse) /\ FavoriteFoodWas(r, {Pizza})) =>
            /\ req[r].deleted = <<Pizza>>
            /\ req[r].applied = <<FavoriteFood>>
            /\ \E row \in store :
                /\ FavoriteFoodRows(store, req[r].userId) = {row}
                /\ row.value = JsonDumps(SteakZh)

(***************************************************************************)
(* C16.  What detect-and-apply reports is what was done.  When the write   *)
(* of an Update has run, its key is appended to applied and the table      *)
(* holds the record that was written; a Delete appends to deleted one      *)
(* entry per row it removed; and with concurrent requests the rows removed *)
(* by Delete operations are as many as the entries of the deleted lists,   *)
(* as long as no request has failed: each removed record is reported by    *)
(* exactly one request.                                                    *)
(***************************************************************************)
C16_ResultReportsWhatWasDone ==
    /\ [](RemovedOnce)
    /\ []((\A r \in Requests : req[r].pc # "failed") =>
            BagCardinality(removed) = ReportedDeletes(Requests))
    /\ [][\A r \in Requests :
            /\ WriteTaken(r) =>
                /\ req'[r].applied = Append(req[r].applied, CurrentOp(r).key)
                /\ Written(store', r)
            /\ DeleteTaken(r) =>
                Len(req'[r].deleted)
                    = Len(req[r].deleted) + Cardinality(store \ store')]_vars

(***************************************************************************)
(* C17.  A detect-and-apply request whose detection yields no operation    *)
(* (the language model answered, and nothing passed the validator) leaves  *)
(* the table unchanged and returns empty detected, applied and deleted     *)
(* lists, with apply true as with apply false.                             *)
(***************************************************************************)
C17_NothingDetected ==
    [][\A r \in Requests :
        (/\ req[r].pc = "idle"
         /\ req'[r].kind = "detect"
         /\ req'[r].detected = <<>>) =>
            /\ store' = store
            /\ nextId' = nextId
            /\ req'[r].pc = "done"
            /\ req'[r].applied = <<>>
            /\ req'[r].deleted = <<>>]_vars

\* the language model answered, nothing was detected, apply was true, and
\* the request has returned with the table as it was
C17_Witness ==
    \E r \in Requests :
        /\ req[r].kind = "detect"
        /\ req[r].gateway = "ok"
        /\ req[r].apply
        /\ req[r].pc = "done"
        /\ req[r].detected = <<>>
        /\ req[r].applied = <<>> /\ req[r].deleted = <<>>
        /\ store = BaseRows

(***************************************************************************)
(* C18.  Every step of a detect-and-apply, save_memory or delete_memory    *)
(* request for user u leaves the rows of every other user as they are:     *)
(* none is created, changed or removed, whatever the operations and the    *)
(* search terms, and whatever the other requests do in between.            *)
(***************************************************************************)
C18_UserScoped ==
    [][\A r \in Requests :
        req'[r] # req[r] =>
            RowsOfOthers(store', req'[r].userId)
                = RowsOfOthers(store, req'[r].userId)]_vars

\* a request of u1 has removed a row with Delete{"a"}, and the row of u2
\* with the same key is still there
C18_Witness ==
    \E r \in Requests :
        /\ req[r].kind = "detect"
        /\ req[r].userId = "u1"
        /\ req[r].pc = "done"
        /\ req[r].detected = <<DeleteOp(<<"a">>)>>
        /\ Len(req[r].deleted) = 1
        /\ DeleteMatching(store, "u2", <<"a">>) # {}

(***************************************************************************)
(* C19 as stated.  No step of a detect-and-apply request creates, changes  *)
(* or removes a row whose memoryType is not long_term.                     *)
(***************************************************************************)
C19_OnlyLongTerm ==
    [][\A r \in Requests :
        DetectStep(r) => OtherPartitions(store') = OtherPartitions(store)]_vars

(***************************************************************************)
(* C19 as amended.  No step of a detect-and-apply request creates or       *)
(* changes a row whose memoryType is not long_term: the rows outside       *)
(* long_term after the step were there before it, unchanged.  (A Delete    *)
(* may remove rows of any memoryType.)                                     *)
(***************************************************************************)
C19_WritesOnlyLongTerm ==
    [][\A r \in Requests :
        DetectStep(r) => OtherPartitions(store') \subseteq OtherPartitions(store)]_vars

\* a request has removed an entity row of its user with a Delete and has
\* inserted a long_term row with an Update
C19_Witness ==
    \E r \in Requests :
        /\ req[r].kind = "detect"
        /\ req[r].pc = "done"
        /\ \E v \in req[r].pre :
                v.userId = req[r].userId /\ v.memoryType = "entity"
        /\ OtherPartitions(store) = {}
        /\ \E row \in store :
                /\ row.id >= FirstFreeId
                /\ row.userId = req[r].userId
                /\ row.memoryType = "long_term"

(***************************************************************************)
(* C20.  A detect-and-apply request is one logical unit: when a statement  *)
(* fails partway through its operations and the request ends as a failure, *)
(* the table holds the records it held when the request began.             *)
(***************************************************************************)
C20_FailedRequestChangedNothing ==
    [][\A r \in Requests :
        FailTaken(r) => View(store') = req[r].pre]_vars

(***************************************************************************)
(* C27.  A delete_memory request that names neither key nor id (so that    *)
(* none of its statements has run or raised) is answered with HTTP status  *)
(* 400, and its step leaves the table as it was.                           *)
(***************************************************************************)
C27_NeitherKeyNorIdIs400 ==
    /\ [](\A r \in Requests :
            (req[r].kind = "remove" /\ req[r].pc = "failed" /\ ~req[r].storeError)
                => req[r].status = 400)
    /\ [][\A r \in Requests :
            (req[r].pc = "idle" /\ req'[r].kind = "remove" /\ req'[r].pc = "failed")
                => store' = store]_vars

(***************************************************************************)
(* C28.  RAGService.get_instance is a singleton under every interleaving   *)
(* of its callers: at most one RAGService object is constructed,           *)
(* _initialize returns successfully at most once, and every caller that    *)
(* get_instance has returned to holds the one instance, with rag_system    *)
(* set.                                                                    *)
(***************************************************************************)
C28_Singleton ==
    /\ rag.created <= 1
    /\ rag.completed <= 1
    /\ \A c \in Callers :
        rag.caller[c].pc = "returned"
            => rag.caller[c].got = rag.instance /\ rag.ragSystem # None

(***************************************************************************)
(* C29.  A /generate request that has found the model loaded, or has       *)
(* loaded it, generates with a loaded model: it ends neither with "Model   *)
(* not loaded" nor by calling a pipeline that is not set.                  *)
(***************************************************************************)
C29_GenerationHasModel ==
    \A c \in Callers : img.gen[c] \notin {"not_loaded", "unset"}

(***************************************************************************)
(* C22.  The write of an Update whose existence check found a row changes  *)
(* only that row, and of that row only value and updatedAt: id, userId,    *)
(* key, memoryType and createdAt stay, and no row is added or removed.     *)
(* The write of an Update whose existence check found no row adds one      *)
(* long_term row for the user and key, with an id that no row of the       *)
(* table has, and changes no other row.                                    *)
(***************************************************************************)
C22_UpdateChangesValueOnly ==
    [][\A r \in Requests :
        WriteTaken(r) =>
            LET q == req[r]
                op == CurrentOp(r)
            IN IF q.existing # None
               THEN /\ { row.id : row \in store' } = { row.id : row \in store }
                    /\ \A old \in store :
                        IF old.id = q.existing
                        THEN [old EXCEPT !.value = JsonDumps(op.value),
                                         !.updatedAt = now] \in store'
                        ELSE old \in store'
                    /\ Cardinality(store') = Cardinality(store)
               ELSE \E new \in store' :
                    /\ \A old \in store : old.id # new.id
                    /\ store' = store \cup {new}
                    /\ new.userId = q.userId
                    /\ new.key = op.key
                    /\ new.memoryType = "long_term"
                    /\ new.value = JsonDumps(op.value)
                    /\ new.createdAt = now
                    /\ new.updatedAt = now]_vars

\* after time has passed, one request has changed the value of a row of
\* the first table, and a request has inserted a row
C22_Witness ==
    /\ \E row \in store :
        /\ row.id < FirstFreeId
        /\ row.createdAt = 0
        /\ row.updatedAt > 0
        /\ row.value = JsonDumps(ValC)
    /\ \E row \in store : row.id > FirstFreeId /\ row.createdAt > 0
    /\ \A r \in Requests : req[r].kind = "detect" /\ req[r].pc = "done"

(***************************************************************************)
(* C30.  A search that returns leaves the table as it is and returns at    *)
(* most limit rows, each of them a row of the user whose memoryType is     *)
(* long_term or entity and whose key or value contains the query string    *)
(* without regard to case, the most recently updated first.                *)
(***************************************************************************)
C30_SearchReturnsMatches ==
    [][\A r \in Requests :
        (req[r].pc = "idle" /\ req'[r].kind = "search" /\ req'[r].pc = "done") =>
            LET q == req'[r]
            IN /\ store' = store
               /\ Len(q.results) <= q.limit
               /\ \A j \in DOMAIN q.results :
                    \E row \in store :
                        /\ Selected(row) = q.results[j]
                        /\ row.memoryType \in {"long_term", "entity"}
                        /\ ContainsTerm(row, q.userId, q.query)
               /\ \A j, k \in DOMAIN q.results :
                    j < k => q.results[j].updatedAt >= q.results[k].updatedAt]_vars

(***************************************************************************)
(* C21 as stated.  The validator emits one operation per element it        *)
(* accepts, in the order of the response and without removing              *)
(* repetitions, and the applier runs the operations in that order: the     *)
(* write of Update{k, v} that comes right after a Delete whose term occurs *)
(* in k leaves exactly one record of the user for k, holding v; the Delete *)
(* that comes right after Update{k, v} and whose term occurs in k or in v  *)
(* leaves the user no record for k.                                        *)
(***************************************************************************)
C21_OrderKept ==
    /\ [](\A r \in Requests : ValidatedAll(r) => EmittedInOrder(r))
    /\ [][\A r \in Requests :
            /\ WriteAfterDelete(r) =>
                    \E row \in store' :
                        /\ DeleteByKey(store', req[r].userId, CurrentOp(r).key) = {row}
                        /\ row.value = JsonDumps(CurrentOp(r).value)
            /\ DeleteAfterUpdate(r) =>
                    DeleteByKey(store', req[r].userId, PreviousOp(r).key) = {}
       ]_vars

(***************************************************************************)
(* C21 as amended.  As above, but the Delete that comes right after        *)
(* Update{k, v} and whose term occurs in k or in v leaves the user no      *)
(* record for k that holds v: the record the Update has written is gone.   *)
(***************************************************************************)
C21_OrderKeptWrittenRecordGone ==
    /\ [](\A r \in Requests : ValidatedAll(r) => EmittedInOrder(r))
    /\ [][\A r \in Requests :
            /\ WriteAfterDelete(r) =>
                    \E row \in store' :
                        /\ DeleteByKey(store', req[r].userId, CurrentOp(r).key) = {row}
                        /\ row.value = JsonDumps(CurrentOp(r).value)
            /\ DeleteAfterUpdate(r) =>
                    \A row \in DeleteByKey(store', req[r].userId, PreviousOp(r).key) :
                        row.value # JsonDumps(PreviousOp(r).value)
       ]_vars

\* a request of u1 has applied Update{"c", "A"} and then Delete{"a"},
\* whose term occurs in the value only: the record it had written is gone
\* again, and the entity record of u1 for "c" is still there
C21_Witness ==
    \E r \in Requests :
        /\ req[r].kind = "detect"
        /\ req[r].pc = "done"
        /\ req[r].userId = "u1"
        /\ req[r].detected = <<UpdateOp(KeyC, ValA), DeleteOp(<<"a">>)>>
        /\ req[r].applied = <<KeyC>>
        /\ \E j \in DOMAIN req[r].deleted : req[r].deleted[j] = KeyC
        /\ SelectTriple(store, "u1", KeyC, "long_term") = {}
        /\ SelectTriple(store, "u1", KeyC, "entity") # {}

(***************************************************************************)
(* C23.  An element that is not valid is dropped alone.  When the          *)
(* validator has gone through a response, the operations it emitted with a *)
(* string as their key are those of the valid elements, in order; and a    *)
(* detect-and-apply request ends as a failure only when the store has      *)
(* failed, never because of an element of the response.                    *)
(***************************************************************************)
C23_InvalidElementDroppedAlone ==
    \A r \in Requests :
        /\ (req[r].pc = "validated" /\ req[r].gateway = "ok") =>
                SelectSeq(req[r].detected, LAMBDA op : IsStr(op.key))
                    = ExpectedValid(req[r].operations)
        /\ (req[r].kind = "detect" /\ req[r].pc = "failed") => req[r].storeError

(***************************************************************************)
(* C26.  When the validator has gone through a response, every operation   *)
(* it emitted has action "update" or "delete"; its delete operations are   *)
(* as many as the delete elements of the response, and its update          *)
(* operations are those of the elements with an acceptable value whose     *)
(* action is "update" or absent: an element without action counts as an    *)
(* update, an element with any other action emits nothing.                 *)
(***************************************************************************)
C26_ActionsUpdateOrDelete ==
    \A r \in Requests :
        (req[r].pc = "validated" /\ req[r].gateway = "ok") =>
            /\ \A j \in DOMAIN req[r].detected :
                    req[r].detected[j].action \in {"update", "delete"}
            /\ Len(DeletesOf(req[r].detected))
                    = Len(SelectSeq(req[r].operations, IsDeleteElement))
            /\ Len(UpdatesOf(req[r].detected))
                    = Len(ExpectedUpdates(req[r].operations))
            /\ \A j \in DOMAIN req[r].operations :
                (req[r].operations[j].hasAction
                    /\ req[r].operations[j].action \notin {"update", "delete"})
                    => Len(req[r].detected) < Len(req[r].operations)

\* a response with an element of action "merge" and an element without
\* action has been validated: only the second is emitted, as an update
C26_Witness ==
    \E r \in Requests :
        /\ req[r].pc = "validated"
        /\ req[r].gateway = "ok"
        /\ req[r].operations =
                << Element(TRUE, TRUE, KeyAB, TRUE, "merge", TRUE, ValA),
                   Element(TRUE, TRUE, KeyC, FALSE, "", TRUE, ValA) >>
        /\ req[r].detected = <<UpdateOp(KeyC, ValA)>>

(***************************************************************************)
(* C24.  When the text of the response is a preamble, the delimiter        *)
(* </think> and then a valid JSON array, the parser hands exactly the      *)
(* elements of that array to the validator, whatever the preamble holds.   *)
(***************************************************************************)
C24_ArrayAfterThink ==
    \A r \in Requests :
        \A k \in DOMAIN req[r].content :
            LET array == SubSeq(req[r].content, k + 1, Len(req[r].content))
            IN (/\ req[r].pc = "llm"
                /\ req[r].content[k] = "T"
                /\ array # <<>>
                /\ Head(array) = "["
                /\ JsonLoadsReturns(array)) =>
                    /\ req[r].gateway = "ok"
                    /\ req[r].operations = JsonLoads(array)

(***************************************************************************)
(* C25.  The parser never raises.  For a response whose text (behind the   *)
(* last </think>, if there is one) has no "[", or no "]", or a last "]"    *)
(* before its first "[", or no valid JSON between the two, extraction      *)
(* returns the empty sequence; and no request fails because of the text    *)
(* of its response.                                                        *)
(***************************************************************************)
C25_ParserNeverRaises ==
    \A r \in Requests :
        /\ (req[r].pc \in {"llm", "validated"}
                /\ Unparsable(AfterThink(req[r].content))) =>
                    /\ req[r].status = 0
                    /\ req[r].operations = <<>>
                    /\ ExtractMemories(req[r].gateway, req[r].operations) = <<>>
                    /\ req[r].pc = "validated" => req[r].detected = <<>>
        /\ (req[r].kind = "detect" /\ req[r].pc = "failed") => req[r].storeError

\* the bracketed text "[e,]" is not valid JSON: json.loads has raised, and
\* extraction has returned the empty sequence
C25_Witness ==
    \E r \in Requests :
        /\ req[r].pc = "validated"
        /\ req[r].content = <<"[", "e", ",", "]">>
        /\ req[r].gateway = "exception"
        /\ req[r].detected = <<>>

====
